---- MODULE Spec2Model ----
(***************************************************************************)
(* Model of src/models/items-dao-mongodb.js: the item lookup DAO over a    *)
(* MongoDB handle that is obtained by an unawaited bootstrap at module     *)
(* load.  Strings are sequences of one-character strings, so that the      *)
(* conversions the code performs (template literals, the regex built by    *)
(* findByDescription, ObjectID parsing, JSON.stringify) are computed and   *)
(* not assumed.                                                            *)
(***************************************************************************)
EXTENDS Integers, Sequences, FiniteSets

(***************************************************************************)
(* Bounds of the model.                                                    *)
(***************************************************************************)
\* invocations that may be outstanding together (specification Spec)
MaxCalls == 2
\* longest text handed to findByDescription / findByUpc (LookupSpec)
MaxLen == 2
\* most documents in the items collection
MaxItems == 2
\* width of an ObjectID in bytes; the driver's is 12 (24 hex digits), the
\* model keeps the two accepted string forms (bytes, 2*bytes hex digits)
ObjectIdBytes == 1

ObjectIdHexLen == 2 * ObjectIdBytes

(***************************************************************************)
(* Text.                                                                   *)
(***************************************************************************)
\* all sequences over S of length lo..hi
SeqsOf(S, lo, hi) == UNION {[1..n -> S] : n \in lo..hi}

\* the first n texts of ss, separated by sep
JoinFirst(ss, sep, n) ==
    LET joined[k \in 0..n] ==
            IF k = 0 THEN <<>>
            ELSE IF k = 1 THEN ss[1]
            ELSE joined[k - 1] \o sep \o ss[k]
    IN  joined[n]

UpperLetters == <<"A", "B", "C", "D", "E", "F">>
LowerLetters == <<"a", "b", "c", "d", "e", "f">>
DecDigits == <<"0", "1", "2", "3", "4", "5", "6", "7", "8", "9">>
HexDigits == DecDigits \o LowerLetters

Range(s) == {s[i] : i \in 1..Len(s)}

\* the lower-case form of one character
ToLowerChar(c) ==
    IF \E i \in 1..Len(UpperLetters) : UpperLetters[i] = c
    THEN LowerLetters[CHOOSE i \in 1..Len(UpperLetters) : UpperLetters[i] = c]
    ELSE c

ToLower(s) == [i \in 1..Len(s) |-> ToLowerChar(s[i])]

(***************************************************************************)
(* JavaScript values handed to the lookups: strings and numbers.           *)
(***************************************************************************)
Str(s) == [t |-> "string", v |-> s]
Num(n) == [t |-> "number", v |-> n]

RECURSIVE NatToString(_)
\* decimal digits of a natural number, as Number.prototype.toString gives
NatToString(n) ==
    IF n < 10 THEN <<DecDigits[n + 1]>>
    ELSE NatToString(n \div 10) \o <<DecDigits[(n % 10) + 1]>>

\* the string form a template literal `${x}` or a '+' concatenation takes
StringOf(x) == IF x.t = "number" THEN NatToString(x.v) ELSE x.v

\* the text of a literal, one character per element
Chars_id == <<"_", "i", "d">>
CharsItemDescription ==
    <<"i", "t", "e", "m", "D", "e", "s", "c", "r", "i", "p", "t", "i", "o", "n">>
CharsUpc == <<"u", "p", "c">>
CharsNull == <<"n", "u", "l", "l">>
CharsNoDocument ==
    <<"N", "o", " ", "d", "o", "c", "u", "m", "e", "n", "t", " ",
      "m", "a", "t", "c", "h", "i", "n", "g", " ", "i", "d", ":", " ">>
CharsCouldBeFound ==
    <<" ", "c", "o", "u", "l", "d", " ", "b", "e", " ", "f", "o", "u", "n", "d", "!">>

(***************************************************************************)
(* mongodb.ObjectID, as findById constructs it from its argument.          *)
(***************************************************************************)
\* characters the model draws id texts from: hex digits in both cases, and
\* one character that is no hex digit
IdChars == {"a", "A", "1", "g"}

\* the two hex digits of the character's code unit
CharCodeHex(c) ==
    CASE c = "a" -> <<"6", "1">>
      [] c = "A" -> <<"4", "1">>
      [] c = "1" -> <<"3", "1">>
      [] c = "g" -> <<"6", "7">>

IsHexString(s) == \A i \in 1..Len(s) : ToLowerChar(s[i]) \in Range(HexDigits)

\* ObjectID.isValid for a string or a number
ObjectIDValid(id) ==
    \/ id.t = "number"
    \/ /\ id.t = "string"
       /\ \/ Len(id.v) = ObjectIdBytes
          \/ Len(id.v) = ObjectIdHexLen /\ IsHexString(id.v)

\* the id ObjectID generates when it is given a number: one no document has
GeneratedObjectID == [i \in 1..ObjectIdHexLen |-> "f"]

\* new mongodb.ObjectID(id), as its lower-case hex string; defined where
\* ObjectIDValid(id), the constructor throws otherwise
ObjectID(id) ==
    IF id.t = "number" THEN GeneratedObjectID
    ELSE IF Len(id.v) = ObjectIdHexLen /\ IsHexString(id.v) THEN ToLower(id.v)
    ELSE JoinFirst([i \in 1..Len(id.v) |-> CharCodeHex(id.v[i])], <<>>, Len(id.v))

(***************************************************************************)
(* Documents of the items collection and their JSON text.                  *)
(***************************************************************************)
Null == [t |-> "null"]

Quote == "\""
Backslash == "\\"

\* JsonEscapeChar without the escaping of quotes and backslashes
JsonEscapeCharRaw(c) == <<c>>

\* JSON.stringify of one character inside a string
JsonEscapeChar(c) ==
    IF c = Quote \/ c = Backslash THEN <<Backslash, c>> ELSE <<c>>

\* JSON.stringify of a string
JsonString(s) ==
    <<Quote>>
    \o JoinFirst([i \in 1..Len(s) |-> JsonEscapeChar(s[i])], <<>>, Len(s))
    \o <<Quote>>

JsonMember(key, s) == JsonString(key) \o <<":">> \o JsonString(s)

\* JSON.stringify(document): a document or null
JSONStringify(document) ==
    IF document = Null THEN CharsNull
    ELSE <<"{">>
         \o JsonMember(Chars_id, document._id) \o <<",">>
         \o JsonMember(CharsItemDescription, document.itemDescription) \o <<",">>
         \o JsonMember(CharsUpc, document.upc)
         \o <<"}">>

\* JSON.stringify(documents): an array of documents
JSONStringifyArray(documents) ==
    <<"[">>
    \o JoinFirst([i \in 1..Len(documents) |-> JSONStringify(documents[i])],
                 <<",">>, Len(documents))
    \o <<"]">>

(***************************************************************************)
(* The regular expression findByDescription hands to the store.            *)
(***************************************************************************)
\* one pattern character against one subject character; "." is any
\* character, and option i ignores letter case
RegexCharMatches(pc, c, options) ==
    \/ pc = "."
    \/ IF options = "i" THEN ToLowerChar(pc) = ToLowerChar(c) ELSE pc = c

RECURSIVE RegexMatchHere(_, _, _, _, _)
\* the pattern from position p matches a prefix of text from position i
RegexMatchHere(pat, p, text, i, options) ==
    IF p > Len(pat) THEN TRUE
    ELSE IF p + 1 <= Len(pat) /\ pat[p + 1] = "*"
         THEN \E k \in 0..(Len(text) + 1 - i) :
                 /\ \A j \in i..(i + k - 1) :
                       RegexCharMatches(pat[p], text[j], options)
                 /\ RegexMatchHere(pat, p + 2, text, i + k, options)
    ELSE /\ i <= Len(text)
         /\ RegexCharMatches(pat[p], text[i], options)
         /\ RegexMatchHere(pat, p + 1, text, i + 1, options)

\* an unanchored $regex match: the pattern matches somewhere in text
RegexTest(pat, options, text) ==
    \E i \in 1..(Len(text) + 1) : RegexMatchHere(pat, 1, text, i, options)

\* the pattern metacharacters among the characters the model draws from
RegexMetaChars == {".", "*"}

(***************************************************************************)
(* The items collection: the queries the three lookups issue.              *)
(***************************************************************************)
\* { field: value }
Equals(field, value) ==
    [field |-> field, operator |-> "$eq", value |-> value, options |-> ""]
\* { field: { $regex: pattern, $options: options } }
Regex(field, pattern, options) ==
    [field |-> field, operator |-> "$regex", value |-> pattern, options |-> options]

\* the document satisfies the query filter
Matches(document, filter) ==
    LET fieldValue ==
            CASE filter.field = "_id" -> document._id
              [] filter.field = "upc" -> document.upc
              [] filter.field = "itemDescription" -> document.itemDescription
    IN  IF filter.operator = "$regex"
        THEN RegexTest(filter.value, filter.options, fieldValue)
        ELSE fieldValue = filter.value

\* collection.find(filter).toArray(): the matching documents, in store order
Find(items, filter) == SelectSeq(items, LAMBDA d : Matches(d, filter))

\* collection.findOne(filter): the first matching document, or null
FindOne(items, filter) ==
    LET found == Find(items, filter)
    IN  IF found = <<>> THEN Null ELSE found[1]

(***************************************************************************)
(* Errors, and the values a lookup's promise settles with.                 *)
(***************************************************************************)
Error(name) == [t |-> "error", name |-> name]

\* db.collection(...) with db undefined
TypeErrorNoHandle == Error("TypeError: Cannot read property 'collection' of undefined")
\* thrown by new mongodb.ObjectID(id) for an id that is not valid
ObjectIDError == Error("Error: Argument passed in must be a single String of 12 bytes or a string of 24 hex characters")
\* failures the driver reports for a request
StoreErrors == {Error("MongoNetworkError"), Error("MongoError")}

None == [t |-> "none"]

\* { data: ..., statusCode: ... }
Envelope(data, statusCode) ==
    [t |-> "envelope", data |-> data, statusCode |-> statusCode]

(***************************************************************************)
(* State.                                                                  *)
(***************************************************************************)
VARIABLES
    db,         \* the module's handle: Undefined until the bootstrap assigns it
    bootstrap,  \* utils.dbConnect()'s promise: "connecting", "connected", "failed"
    store,      \* the documents of the items collection, in natural order
    calls,      \* the invocations of the lookups, in the order they were made
    log         \* <<level, source>> of the logger calls made

vars == <<db, bootstrap, store, calls, log>>

Undefined == "undefined"
Database == "database"

\* the documents the model's collections are made of
PadId(base) == [i \in 1..ObjectIdHexLen |-> base[((i - 1) % Len(base)) + 1]]

Pool ==
    << [_id |-> PadId(<<"a", "1">>), itemDescription |-> <<"a", "B">>,
        upc |-> <<"0", "1">>],
       [_id |-> PadId(<<"1", "1">>), itemDescription |-> <<"b", Quote>>,
        upc |-> <<"1">>],
       [_id |-> PadId(<<"3", "1">>), itemDescription |-> <<"A", "a">>,
        upc |-> <<"0", "1">>] >>

\* collections of at most MaxItems documents with distinct _id
Stores ==
    {s \in SeqsOf(Range(Pool), 0, MaxItems) :
        \A i, j \in 1..Len(s) : s[i]._id = s[j]._id => i = j}

\* arguments of the lookups
DescChars == {"a", "A", "b", "."}
UpcChars == {"0", "1"}

IdArgs ==
    {Str(s) : s \in SeqsOf(IdChars, 0, ObjectIdHexLen)}
    \cup {Str([i \in 1..(ObjectIdHexLen + 1) |-> "a"]), Num(0), Num(12)}
DescriptionArgs == {Str(s) : s \in SeqsOf(DescChars, 0, MaxLen)}
UpcArgs ==
    {Str(s) : s \in SeqsOf(UpcChars, 0, MaxLen)} \cup {Num(n) : n \in {0, 1, 10, 11}}

\* the arguments of the invocations that run together
ConcurrentIdArgs == {Str(Pool[1]._id), Str(PadId(<<"A">>)), Str(PadId(<<"g">>))}
ConcurrentDescriptionArgs == {Str(<<"a">>), Str(<<"b", "b">>)}
ConcurrentUpcArgs == {Str(<<"0", "1">>), Num(0)}
ConcurrentStores == {SubSeq(Pool, 1, n) : n \in {0, 2}}

(***************************************************************************)
(* A lookup's invocation: its closure and its promise.                     *)
(***************************************************************************)
\* new Promise(...): pending, before the executor has run
NewCall(op, arg) ==
    [op |-> op,              \* the lookup invoked
     arg |-> arg,            \* its argument, bound in the closure
     handle |-> db,          \* the value of db the executor dereferences
     state |-> "pending",    \* the promise: "pending", "resolved", "rejected"
     value |-> None,         \* what the promise settled with
     resolves |-> 0,         \* times resolve was called
     rejects |-> 0,          \* times reject was called
     threw |-> FALSE,        \* an exception reached the caller synchronously
     request |-> None,       \* the query handed to the store
     requests |-> 0,         \* store requests issued
     awaiting |-> FALSE,     \* a store request is outstanding
     storeErr |-> None]      \* the error the store reported for the request

\* resolve(v): settles the promise unless it is settled already
Resolve(call, v) ==
    [call EXCEPT !.resolves = @ + 1,
                 !.state = IF @ = "pending" THEN "resolved" ELSE @,
                 !.value = IF call.state = "pending" THEN v ELSE @]

\* reject(v): settles the promise unless it is settled already
Reject(call, v) ==
    [call EXCEPT !.rejects = @ + 1,
                 !.state = IF @ = "pending" THEN "rejected" ELSE @,
                 !.value = IF call.state = "pending" THEN v ELSE @]

\* ExecutorThrow had the handle been dereferenced outside the executor: the
\* exception reaches the caller and no promise is returned
ExecutorThrowEscapes(call, err) == [call EXCEPT !.threw = TRUE]

\* the executor throws: the Promise constructor catches the exception and
\* rejects the promise with it; nothing is thrown to the caller
ExecutorThrow(call, err) == Reject(call, err)

\* a query is handed to the store; its callback runs when the store answers
Request(call, filter) ==
    [call EXCEPT !.request = filter, !.requests = @ + 1, !.awaiting = TRUE]

\* the store has answered: the request is no longer outstanding
Answered(call, err) == [call EXCEPT !.awaiting = FALSE, !.storeErr = err]

\* ClosureArg had the argument been kept in a variable of the module: the
\* callbacks see the argument of the latest invocation
ClosureArgShared(cs, i) == cs[Len(cs)].arg

\* the argument the callbacks of invocation i see: the one bound in its closure
ClosureArg(cs, i) == cs[i].arg

Logged(level, source) == log \cup {<<level, source>>}

(***************************************************************************)
(* getDbConnection: the bootstrap run when the module is loaded.           *)
(***************************************************************************)
\* utils.dbConnect() resolves: db = database
ConnectResolved ==
    /\ bootstrap = "connecting"
    /\ bootstrap' = "connected"
    /\ db' = Database
    /\ log' = Logged("info", "items-dao-mongogb.getDbConnection()")
    /\ UNCHANGED <<store, calls>>

\* utils.dbConnect() rejects: the error is logged, db is left as it is
ConnectRejected ==
    /\ bootstrap = "connecting"
    /\ bootstrap' = "failed"
    /\ log' = Logged("error", "items-dao-mongogb.getDbConnection()")
    /\ UNCHANGED <<db, store, calls>>

(***************************************************************************)
(* findById                                                                *)
(***************************************************************************)
\* 'No document matching id: ' + id + ' could be found!'
NotFoundMessage(id) == Str(CharsNoDocument \o StringOf(id) \o CharsCouldBeFound)

\* the executor: db.collection('items'), new ObjectID(id), items.findOne
FindByIdExecutor(call) ==
    IF call.handle = Undefined THEN ExecutorThrow(call, TypeErrorNoHandle)
    ELSE IF ~ObjectIDValid(call.arg) THEN ExecutorThrow(call, ObjectIDError)
    ELSE Request(call, Equals("_id", ObjectID(call.arg)))

\* FindById connecting on demand when the handle is not there
FindByIdLazyConnect(id) ==
    /\ db' = Database
    /\ calls' = Append(calls,
          FindByIdExecutor([NewCall("findById", id) EXCEPT !.handle = Database]))
    /\ UNCHANGED <<bootstrap, store, log>>

FindById(id) ==
    /\ calls' = Append(calls, FindByIdExecutor(NewCall("findById", id)))
    /\ UNCHANGED <<db, bootstrap, store, log>>

\* FindByIdThen signalling a miss the way findByUpc does: a 404 envelope
FindByIdThenNullPayload(i) ==
    /\ calls[i].op = "findById" /\ calls[i].awaiting
    /\ \E document \in {FindOne(store, calls[i].request)} :
          calls' = [calls EXCEPT ![i] =
              Resolve(Answered(calls[i], None),
                      Envelope(JSONStringify(document),
                               IF document # Null THEN 200 ELSE 404))]
    /\ UNCHANGED <<db, bootstrap, store, log>>

\* .then((document) => ...): the store answers the findOne
FindByIdThen(i) ==
    /\ calls[i].op = "findById" /\ calls[i].awaiting
    /\ \E document \in {FindOne(store, calls[i].request)},
          call \in {Answered(calls[i], None)} :
          IF document # Null
          THEN /\ calls' = [calls EXCEPT
                      ![i] = Resolve(call, Envelope(JSONStringify(document), 200))]
               /\ log' = log
          ELSE /\ calls' = [calls EXCEPT
                      ![i] = Reject(call, NotFoundMessage(ClosureArg(calls, i)))]
               /\ log' = Logged("error", "findById()")
    /\ UNCHANGED <<db, bootstrap, store>>

\* FindByIdCatch retrying the query instead of failing
FindByIdCatchRetries(i, err) ==
    /\ calls[i].op = "findById" /\ calls[i].awaiting /\ calls[i].requests < 3
    /\ calls' = [calls EXCEPT
           ![i] = Request(Answered(calls[i], err), calls[i].request)]
    /\ log' = Logged("error", "findById()")
    /\ UNCHANGED <<db, bootstrap, store>>

\* .catch((err) => ...): the store fails the findOne
FindByIdCatch(i, err) ==
    /\ calls[i].op = "findById" /\ calls[i].awaiting
    /\ calls' = [calls EXCEPT ![i] = Reject(Answered(calls[i], err), err)]
    /\ log' = Logged("error", "findById()")
    /\ UNCHANGED <<db, bootstrap, store>>

(***************************************************************************)
(* findByDescription                                                       *)
(***************************************************************************)
\* `.*${partialDescription}.*`
SearchPattern(partialDescription) ==
    <<".", "*">> \o StringOf(partialDescription) \o <<".", "*">>

\* FindByDescriptionExecutor without $options: 'i'
FindByDescriptionExecutorCaseSensitive(call) ==
    IF call.handle = Undefined THEN ExecutorThrow(call, TypeErrorNoHandle)
    ELSE Request(call, Regex("itemDescription", SearchPattern(call.arg), ""))

FindByDescriptionExecutor(call) ==
    IF call.handle = Undefined THEN ExecutorThrow(call, TypeErrorNoHandle)
    ELSE Request(call, Regex("itemDescription", SearchPattern(call.arg), "i"))

FindByDescription(partialDescription) ==
    /\ calls' = Append(calls,
          FindByDescriptionExecutor(NewCall("findByDescription", partialDescription)))
    /\ UNCHANGED <<db, bootstrap, store, log>>

\* .toArray((err, documents) => ...)
FindByDescriptionCallback(i, err) ==
    /\ calls[i].op = "findByDescription" /\ calls[i].awaiting
    /\ \E documents \in {Find(store, calls[i].request)},
          call \in {Answered(calls[i], err)} :
          calls' = [calls EXCEPT ![i] =
              IF err # None THEN Reject(call, err)
              ELSE Resolve(call, Envelope(JSONStringifyArray(documents),
                                 IF Len(documents) > 0 THEN 200 ELSE 404))]
    /\ UNCHANGED <<db, bootstrap, store, log>>

(***************************************************************************)
(* findByUpc                                                               *)
(***************************************************************************)
\* FindByUpcExecutor matching the UPC as findByDescription matches its text
FindByUpcExecutorPartial(call) ==
    IF call.handle = Undefined THEN ExecutorThrow(call, TypeErrorNoHandle)
    ELSE Request(call, Regex("upc", SearchPattern(call.arg), "i"))

FindByUpcExecutor(call) ==
    IF call.handle = Undefined THEN ExecutorThrow(call, TypeErrorNoHandle)
    ELSE Request(call, Equals("upc", StringOf(call.arg)))

FindByUpc(upc) ==
    /\ calls' = Append(calls, FindByUpcExecutor(NewCall("findByUpc", upc)))
    /\ UNCHANGED <<db, bootstrap, store, log>>

\* FindByUpcCallback with the else missing: on an error it rejects and then
\* resolves as well
FindByUpcCallbackNoElse(i, err) ==
    /\ calls[i].op = "findByUpc" /\ calls[i].awaiting
    /\ \E document \in {FindOne(store, calls[i].request)},
          call \in {Answered(calls[i], err)} :
          \E envelope \in {Envelope(JSONStringify(document),
                                    IF document # Null THEN 200 ELSE 404)} :
             calls' = [calls EXCEPT ![i] =
                 IF err # None THEN Resolve(Reject(call, err), envelope)
                 ELSE Resolve(call, envelope)]
    /\ log' = IF err # None THEN Logged("error", "findById()") ELSE log
    /\ UNCHANGED <<db, bootstrap, store>>

\* (err, document) => ...
FindByUpcCallback(i, err) ==
    /\ calls[i].op = "findByUpc" /\ calls[i].awaiting
    /\ \E document \in {FindOne(store, calls[i].request)},
          call \in {Answered(calls[i], err)} :
          IF err # None
          THEN /\ calls' = [calls EXCEPT ![i] = Reject(call, err)]
               /\ log' = Logged("error", "findById()")
          ELSE /\ calls' = [calls EXCEPT ![i] =
                      Resolve(call, Envelope(JSONStringify(document),
                                  IF document # Null THEN 200 ELSE 404))]
               /\ log' = log
    /\ UNCHANGED <<db, bootstrap, store>>

(***************************************************************************)
(* Specifications.                                                         *)
(***************************************************************************)
\* the state once the module is loaded: the bootstrap has been started
Loaded ==
    /\ db = Undefined
    /\ bootstrap = "connecting"
    /\ calls = <<>>
    /\ log = {<<"info", "items-dao-mongogb.getDbConnection()">>}

\* the store answers the request of invocation i, with documents or an error
Respond(i) ==
    \/ FindByIdThen(i)
    \/ \E err \in StoreErrors : FindByIdCatch(i, err)
    \/ \E err \in StoreErrors \cup {None} : FindByDescriptionCallback(i, err)
    \/ \E err \in StoreErrors \cup {None} : FindByUpcCallback(i, err)

\* Spec: up to MaxCalls invocations that may run together
Init == Loaded /\ store \in ConcurrentStores

Next ==
    \/ ConnectResolved
    \/ ConnectRejected
    \/ \E id \in ConcurrentIdArgs : Len(calls) < MaxCalls /\ FindById(id)
    \/ \E partialDescription \in ConcurrentDescriptionArgs :
          Len(calls) < MaxCalls /\ FindByDescription(partialDescription)
    \/ \E upc \in ConcurrentUpcArgs : Len(calls) < MaxCalls /\ FindByUpc(upc)
    \/ \E i \in 1..Len(calls) : FindByIdThen(i)
    \/ \E i \in 1..Len(calls), err \in StoreErrors : FindByIdCatch(i, err)
    \/ \E i \in 1..Len(calls), err \in StoreErrors \cup {None} :
          FindByDescriptionCallback(i, err)
    \/ \E i \in 1..Len(calls), err \in StoreErrors \cup {None} :
          FindByUpcCallback(i, err)

Spec == Init /\ [][Next]_vars

\* FairSpec: the store answers every request it receives (the event loop
\* runs the callback of each answer); nothing is assumed of the bootstrap
FairSpec ==
    /\ Spec
    /\ \A i \in 1..MaxCalls : WF_vars(i <= Len(calls) /\ Respond(i))

\* LookupSpec: one invocation, its argument drawn from all texts within the bounds
InitLookup == Loaded /\ store \in Stores

NextLookup ==
    \/ ConnectResolved
    \/ ConnectRejected
    \/ \E id \in IdArgs : calls = <<>> /\ FindById(id)
    \/ \E partialDescription \in DescriptionArgs :
          calls = <<>> /\ FindByDescription(partialDescription)
    \/ \E upc \in UpcArgs : calls = <<>> /\ FindByUpc(upc)
    \/ \E i \in 1..Len(calls) : FindByIdThen(i)
    \/ \E i \in 1..Len(calls), err \in StoreErrors : FindByIdCatch(i, err)
    \/ \E i \in 1..Len(calls), err \in StoreErrors \cup {None} :
          FindByDescriptionCallback(i, err)
    \/ \E i \in 1..Len(calls), err \in StoreErrors \cup {None} :
          FindByUpcCallback(i, err)

LookupSpec == InitLookup /\ [][NextLookup]_vars

(***************************************************************************)
(* The claims.                                                             *)
(***************************************************************************)
Invocations == 1..Len(calls)

\* s occurs in t as a contiguous substring
Contains(t, s) ==
    \E k \in 0..(Len(t) - Len(s)) : \A i \in 1..Len(s) : t[k + i] = s[i]

\* s occurs in t, ignoring letter case
ContainsIgnoreCase(t, s) == Contains(ToLower(t), ToLower(s))

\* JSON.parse, as a caller applies it to the data of an envelope
RECURSIVE ParseStringBody(_, _, _)
\* reads a JSON string whose opening quote is before position p
ParseStringBody(text, p, acc) ==
    IF p > Len(text) THEN [ok |-> FALSE, val |-> acc, next |-> p]
    ELSE IF text[p] = Quote THEN [ok |-> TRUE, val |-> acc, next |-> p + 1]
    ELSE IF text[p] = Backslash
         THEN IF p + 1 > Len(text) THEN [ok |-> FALSE, val |-> acc, next |-> p]
              ELSE ParseStringBody(text, p + 2, Append(acc, text[p + 1]))
    ELSE ParseStringBody(text, p + 1, Append(acc, text[p]))

ParseString(text, p) ==
    IF p <= Len(text) /\ text[p] = Quote THEN ParseStringBody(text, p + 1, <<>>)
    ELSE [ok |-> FALSE, val |-> <<>>, next |-> p]

RECURSIVE ParseMembers(_, _, _)
\* reads "key":"value" pairs up to the closing brace
ParseMembers(text, p, acc) ==
    LET k == ParseString(text, p)
        v == ParseString(text, k.next + 1)
        member == <<k.val, v.val>>
    IN  IF ~k.ok \/ k.next > Len(text) \/ text[k.next] # ":" \/ ~v.ok
             \/ v.next > Len(text)
        THEN [ok |-> FALSE, val |-> acc, next |-> p]
        ELSE IF text[v.next] = "}"
             THEN [ok |-> TRUE, val |-> Append(acc, member), next |-> v.next + 1]
        ELSE IF text[v.next] = ","
             THEN ParseMembers(text, v.next + 1, Append(acc, member))
        ELSE [ok |-> FALSE, val |-> acc, next |-> p]

\* the value of the member named key, in a sequence of <<key, value>> pairs
Member(members, key) ==
    members[CHOOSE i \in 1..Len(members) : members[i][1] = key][2]

\* JSON.parse of the text of a document or of null
JSONParse(text) ==
    IF text = CharsNull THEN Null
    ELSE LET m == ParseMembers(text, 2, <<>>)
         IN  IF Len(text) > 1 /\ text[1] = "{" /\ m.ok /\ m.next = Len(text) + 1
                  /\ {m.val[i][1] : i \in 1..Len(m.val)}
                       = {Chars_id, CharsItemDescription, CharsUpc}
             THEN [_id |-> Member(m.val, Chars_id),
                   itemDescription |-> Member(m.val, CharsItemDescription),
                   upc |-> Member(m.val, CharsUpc)]
             ELSE [t |-> "SyntaxError"]


\* the store has answered the one request of the invocation without an error
AnsweredOk(c) ==
    c.handle = Database /\ c.requests = 1 /\ ~c.awaiting /\ c.storeErr = None

\* the text has none of the pattern metacharacters
MetaFree(text) == \A i \in 1..Len(text) : text[i] \notin RegexMetaChars

\* C1: no lookup dereferences the handle db while it is still unassigned: in
\* every interleaving of the bootstrap with the invocations, the handle an
\* invocation reads is the connected database.
C1_HandleAssignedBeforeLookup ==
    \A i \in Invocations : calls[i].handle = Database

\* C2: a lookup invoked while db is not populated (the connect pending or
\* failed) returns a promise rejected with the null-handle error; it never
\* resolves, issues no store query and throws nothing to its caller.
C2_NullHandleRejects ==
    \A i \in Invocations :
        calls[i].handle = Undefined =>
            /\ calls[i].state = "rejected"
            /\ calls[i].value = TypeErrorNoHandle
            /\ calls[i].resolves = 0
            /\ calls[i].requests = 0 /\ calls[i].request = None
            /\ ~calls[i].threw

\* the connect has failed and a lookup invoked without a handle is rejected
C2_Witness ==
    /\ bootstrap = "failed"
    /\ \E i \in Invocations :
          /\ calls[i].handle = Undefined /\ calls[i].state = "rejected"
          /\ calls[i].op = "findByDescription"

C4_FindByIdHitResolves ==
    \A i \in Invocations : \A k \in 1..Len(store) :
        LET c == calls[i] IN
        (c.op = "findById" /\ AnsweredOk(c) /\ c.arg = Str(store[k]._id))
        => /\ c.state = "resolved" /\ c.rejects = 0
           /\ c.value.statusCode = 200
           /\ c.value.data = JSONStringify(store[k])
           /\ JSONParse(c.value.data) = store[k]
           /\ JSONParse(c.value.data)._id = c.arg.v

\* findById of the id of the second document of a store, whose description
\* has a character JSON escapes, has resolved
C4_Witness ==
    \E i \in Invocations :
        /\ calls[i].op = "findById" /\ AnsweredOk(calls[i])
        /\ Len(store) = 2 /\ calls[i].arg = Str(store[2]._id)
        /\ Quote \in Range(store[2].itemDescription)
        /\ calls[i].state = "resolved"

\* the stored items whose description contains the text, ignoring case
DescriptionContains(text) ==
    SelectSeq(store, LAMBDA d : ContainsIgnoreCase(d.itemDescription, text))

\* C5: with the handle there and the store answering without an error,
\* findByDescription(S) of a text S without regex metacharacters resolves;
\* its data is the JSON array of exactly the stored items whose description
\* contains S ignoring case, its statusCode 200 if there is one, else 404.
C5_FindByDescriptionContains ==
    \A i \in Invocations :
        LET c == calls[i]
            expected == DescriptionContains(StringOf(c.arg))
        IN  (c.op = "findByDescription" /\ c.handle = Database
             /\ c.storeErr = None /\ MetaFree(StringOf(c.arg)))
            => /\ c.rejects = 0 /\ c.state # "rejected"
               /\ ~c.awaiting =>
                     /\ c.state = "resolved"
                     /\ c.value.data = JSONStringifyArray(expected)
                     /\ c.value.statusCode = IF expected # <<>> THEN 200 ELSE 404
                     /\ (expected = <<>>) = (c.value.data = <<"[", "]">>)

\* a text has matched one of two stored descriptions, in another letter case
C5_Witness ==
    \E i \in Invocations :
        /\ calls[i].op = "findByDescription" /\ AnsweredOk(calls[i])
        /\ MetaFree(StringOf(calls[i].arg)) /\ Len(StringOf(calls[i].arg)) = 2
        /\ Len(store) = 2 /\ Len(DescriptionContains(StringOf(calls[i].arg))) = 1
        /\ ~\E k \in 1..Len(store) :
               Contains(store[k].itemDescription, StringOf(calls[i].arg))
        /\ calls[i].value.statusCode = 200

\* a text without metacharacters has matched no description: 404
C5_WitnessMiss ==
    \E i \in Invocations :
        /\ calls[i].op = "findByDescription" /\ AnsweredOk(calls[i])
        /\ MetaFree(StringOf(calls[i].arg)) /\ store # <<>>
        /\ calls[i].value.statusCode = 404

\* C6: with the handle there and the store answering without an error,
\* findByUpc(U) resolves: with statusCode 200 and the JSON text of a stored
\* item whose upc is exactly the string form of U if there is one, and with
\* statusCode 404 and the text null otherwise; an item whose upc only
\* contains U is never returned.
C6_FindByUpcExact ==
    \A i \in Invocations :
        LET c == calls[i]
            u == StringOf(c.arg)
            hit == \E k \in 1..Len(store) : store[k].upc = u
        IN  (c.op = "findByUpc" /\ c.handle = Database /\ c.storeErr = None)
            => /\ c.rejects = 0 /\ c.state # "rejected"
               /\ ~c.awaiting =>
                     /\ c.state = "resolved"
                     /\ c.value.statusCode = IF hit THEN 200 ELSE 404
                     /\ hit => \E k \in 1..Len(store) :
                                   /\ store[k].upc = u
                                   /\ c.value.data = JSONStringify(store[k])
                                   /\ JSONParse(c.value.data) = store[k]
                     /\ ~hit => c.value.data = CharsNull

\* a number has been looked up whose digits are a proper part of the only
\* stored upc containing them: 404 and null
C6_Witness ==
    \E i \in Invocations :
        /\ calls[i].op = "findByUpc" /\ AnsweredOk(calls[i])
        /\ calls[i].arg.t = "number"
        /\ \E k \in 1..Len(store) : Contains(store[k].upc, StringOf(calls[i].arg))
        /\ \A k \in 1..Len(store) : store[k].upc # StringOf(calls[i].arg)
        /\ calls[i].value.statusCode = 404 /\ calls[i].value.data = CharsNull

\* a number has been looked up whose string form is a stored upc: 200
C6_WitnessHit ==
    \E i \in Invocations :
        /\ calls[i].op = "findByUpc" /\ AnsweredOk(calls[i])
        /\ calls[i].arg.t = "number"
        /\ calls[i].value.statusCode = 200

\* C7: when the one store request of a lookup reports an error, or findById
\* is given a malformed id, the promise is rejected with that very error; the
\* lookup issues no second request and never resolves.
C7_StoreErrorPropagates ==
    \A i \in Invocations :
        LET c == calls[i] IN
        /\ c.requests <= 1
        /\ c.storeErr # None =>
              /\ c.state = "rejected" /\ c.value = c.storeErr
              /\ c.resolves = 0 /\ ~c.awaiting
        /\ (c.op = "findById" /\ c.handle = Database /\ ~ObjectIDValid(c.arg)) =>
              /\ c.state = "rejected" /\ c.value = ObjectIDError
              /\ c.resolves = 0 /\ c.requests = 0

\* the store has failed a findById and a findByUpc that ran together
C7_Witness ==
    \E i, j \in Invocations :
        /\ calls[i].op = "findById" /\ calls[i].storeErr \in StoreErrors
        /\ calls[j].op = "findByUpc" /\ calls[j].storeErr \in StoreErrors
        /\ calls[i].storeErr # calls[j].storeErr

\* a malformed id has been given to findById with the handle there
C7_WitnessMalformed ==
    \E i \in Invocations :
        /\ calls[i].op = "findById" /\ calls[i].handle = Database
        /\ ~ObjectIDValid(calls[i].arg) /\ calls[i].state = "rejected"

\* resolve and reject were called once between them iff the promise is settled
SettledOnce(c) ==
    /\ c.resolves + c.rejects <= 1
    /\ (c.state # "pending") = (c.resolves + c.rejects = 1)
    /\ (c.state = "resolved") = (c.resolves = 1)
    /\ (c.state = "rejected") = (c.rejects = 1)

\* C8: every invocation settles exactly once: provided the store answers
\* each request, its promise eventually is resolved or rejected, and resolve
\* and reject are never both called, nor either twice.
C8_SettlesExactlyOnce ==
    /\ [](\A i \in Invocations : SettledOnce(calls[i]))
    /\ \A i \in 1..MaxCalls :
          (i <= Len(calls)) ~> (i <= Len(calls) /\ calls[i].state # "pending")

\* all the invocations have settled, one resolved and one rejected on an
\* answer of the store
C8_Witness ==
    /\ Len(calls) = MaxCalls
    /\ \A i \in Invocations : calls[i].state # "pending"
    /\ \E i, j \in Invocations :
          /\ calls[i].requests = 1 /\ calls[i].state = "resolved"
          /\ calls[j].requests = 1 /\ calls[j].state = "rejected"

\* C9: db is assigned at most once, by the bootstrap when the connect
\* succeeds; after a failed connect it stays unset and no connect is started
\* again; no lookup writes db or changes the stored items.
C9_HandleWrittenOnceByBootstrap ==
    [][/\ db' # db => /\ db = Undefined /\ db' = Database
                      /\ bootstrap = "connecting" /\ bootstrap' = "connected"
                      /\ calls' = calls
       /\ bootstrap # "connecting" => bootstrap' = bootstrap /\ db' = db
       /\ bootstrap = "failed" => db' = Undefined
       /\ calls' # calls => db' = db /\ store' = store /\ bootstrap' = bootstrap
       /\ store' = store]_vars

\* the connect has failed, the handle is unset and lookups have been invoked
C9_Witness ==
    /\ bootstrap = "failed" /\ db = Undefined
    /\ Len(calls) = MaxCalls

\* the handle has been assigned and lookups have been answered by the store
C9_WitnessConnected ==
    /\ bootstrap = "connected" /\ db = Database
    /\ \E i \in Invocations : AnsweredOk(calls[i])

\* what a lookup invoked alone on the stored items settles with, given the
\* answer of the store to its request (an error, or None)
Alone(op, arg, err) ==
    LET id == ObjectID(arg)
        one == FindOne(store, Equals(IF op = "findById" THEN "_id" ELSE "upc",
                                     IF op = "findById" THEN id ELSE StringOf(arg)))
        many == Find(store, Regex("itemDescription", SearchPattern(arg), "i"))
    IN  IF op = "findById" /\ ~ObjectIDValid(arg) THEN <<"rejected", ObjectIDError>>
        ELSE IF err # None THEN <<"rejected", err>>
        ELSE IF op = "findById"
             THEN IF one # Null
                  THEN <<"resolved", Envelope(JSONStringify(one), 200)>>
                  ELSE <<"rejected",
                         Str(CharsNoDocument \o StringOf(arg) \o CharsCouldBeFound)>>
        ELSE IF op = "findByUpc"
             THEN <<"resolved", Envelope(JSONStringify(one),
                                         IF one # Null THEN 200 ELSE 404)>>
        ELSE <<"resolved", Envelope(JSONStringifyArray(many),
                                    IF many # <<>> THEN 200 ELSE 404)>>

\* C10: lookups that run together on the same stored items, their requests
\* and answers interleaved in any order, each settle with what they would
\* settle with alone; no result depends on the argument or the result of
\* another invocation.
C10_ConcurrentAsAlone ==
    \A i \in Invocations :
        LET c == calls[i] IN
        (c.handle = Database /\ c.state # "pending")
        => <<c.state, c.value>> = Alone(c.op, c.arg, c.storeErr)

\* two findById of different ids were outstanding together; the later one
\* has been answered with a miss while the earlier one is still outstanding
C10_Witness ==
    \E i, j \in Invocations :
        /\ i < j
        /\ calls[i].op = "findById" /\ calls[j].op = "findById"
        /\ calls[i].arg # calls[j].arg
        /\ calls[i].awaiting
        /\ AnsweredOk(calls[j]) /\ calls[j].state = "rejected"

\* two findById of different ids that ran together have both missed
C10_WitnessBoth ==
    \E i, j \in Invocations :
        /\ calls[i].op = "findById" /\ calls[j].op = "findById"
        /\ calls[i].arg # calls[j].arg
        /\ AnsweredOk(calls[i]) /\ AnsweredOk(calls[j])
        /\ calls[i].state = "rejected" /\ calls[j].state = "rejected"

====
